---------------------------- MODULE Spec2Model ----------------------------
(***************************************************************************)
(* fastapi-querybuilder-jsonb: build_query and the filter / search / sort  *)
(* compilers behind it.                                                    *)
(*                                                                         *)
(* Text is a sequence of one-character strings, so that split(), lower(),  *)
(* isdigit() and ilike patterns work on characters as the Python code      *)
(* does.  A decoded JSON value is a tagged record.  SQL expressions and    *)
(* predicates are terms (tagged records) built by the same calls the code  *)
(* makes on SQLAlchemy.  An exception is an error record; a function that  *)
(* can raise returns a record with an ok flag.                             *)
(***************************************************************************)
EXTENDS Integers, Sequences, FiniteSets, TLC

VARIABLES cls, doc, base, params, stmt, pc, err, ret

vars == <<cls, doc, base, params, stmt, pc, err, ret>>

----------------------------------------------------------------------------
(* Bounds of the checked input sets.                                       *)

\* weight of the largest filter tree
MaxNodes == 6
\* pieces of a sort string (one more than its colons)
MaxSortPieces == 3
\* characters of a free search term, of a text operand and of a cell value
MaxStrLen == 2
\* elements of a list operand
MaxListLen == 3

----------------------------------------------------------------------------
(* Text.                                                                   *)

UpperChars == <<"A", "B", "C", "D", "E", "F", "K", "L", "N", "O", "P", "R", "S", "T", "U">>
LowerChars == <<"a", "b", "c", "d", "e", "f", "k", "l", "n", "o", "p", "r", "s", "t", "u">>

\* str.lower() on one character
LowerChar(c) ==
    IF \E i \in DOMAIN UpperChars : UpperChars[i] = c
    THEN LowerChars[CHOOSE i \in DOMAIN UpperChars : UpperChars[i] = c]
    ELSE c

\* str.lower()
Lower(s) == [i \in DOMAIN s |-> LowerChar(s[i])]

RECURSIVE SplitFrom(_, _, _, _, _)
SplitFrom(s, sep, i, cur, acc) ==
    IF i > Len(s) THEN Append(acc, cur)
    ELSE IF s[i] = sep THEN SplitFrom(s, sep, i + 1, <<>>, Append(acc, cur))
    ELSE SplitFrom(s, sep, i + 1, Append(cur, s[i]), acc)

\* str.split(sep) for a one-character separator: always at least one piece
Split(s, sep) == SplitFrom(s, sep, 1, <<>>, <<>>)

RECURSIVE Join(_, _)
\* sep.join(pieces)
Join(pieces, sep) ==
    IF pieces = <<>> THEN <<>>
    ELSE IF Len(pieces) = 1 THEN pieces[1]
    ELSE pieces[1] \o <<sep>> \o Join(Tail(pieces), sep)

AsciiDigits == <<"0", "1", "2", "3", "4", "5", "6", "7", "8", "9">>

IsAsciiDigit(c) == \E i \in DOMAIN AsciiDigits : AsciiDigits[i] = c

\* str.isdigit() on one character: true of the decimal digits and also of
\* digit characters that are not decimal, such as SUPERSCRIPT TWO ("sup2")
IsDigitChar(c) == IsAsciiDigit(c) \/ c = "sup2"

\* str.isdigit(): non-empty and every character a digit
IsDigit(s) == s # <<>> /\ \A i \in DOMAIN s : IsDigitChar(s[i])

DigitValue(c) == (CHOOSE i \in DOMAIN AsciiDigits : AsciiDigits[i] = c) - 1

RECURSIVE DecimalValue(_)
DecimalValue(s) ==
    IF s = <<>> THEN 0
    ELSE 10 * DecimalValue(SubSeq(s, 1, Len(s) - 1)) + DigitValue(s[Len(s)])

\* int(s) for a string of digit characters: a ValueError unless every
\* character is a decimal digit
IntOf(s) ==
    IF s # <<>> /\ \A i \in DOMAIN s : IsAsciiDigit(s[i])
    THEN [ok |-> TRUE, n |-> DecimalValue(s)]
    ELSE [ok |-> FALSE, n |-> 0]

----------------------------------------------------------------------------
(* Decoded JSON values.                                                    *)

JStr(s) == [t |-> "str", s |-> s]
JNum(n) == [t |-> "num", n |-> n]
JBool(b) == [t |-> "bool", b |-> b]
JList(items) == [t |-> "list", items |-> items]
\* an object is the ordered sequence of its <<key, value>> entries
JObj(entries) == [t |-> "obj", entries |-> entries]

IsDict(j) == j.t = "obj"
IsList(j) == j.t = "list"

----------------------------------------------------------------------------
(* Errors.                                                                 *)

NoErr == [status |-> 0, kind |-> "", key |-> <<>>, item |-> <<>>]

\* HTTPException(status_code=400, detail=...): kind names the message, key
\* and item the texts the message quotes
Http400(kind, key, item) == [status |-> 400, kind |-> kind, key |-> key, item |-> item]

\* an exception nothing catches
Uncaught(kind) == [status |-> 500, kind |-> kind, key |-> <<>>, item |-> <<>>]

----------------------------------------------------------------------------
(* Results of the functions that can raise.                                *)

Ok(p) == [ok |-> TRUE, p |-> p]

\* an exception raised inside an operator; names is the text its message quotes
Raise(exc, names) == [ok |-> FALSE, exc |-> exc, names |-> names]

\* an exception that leaves build_query
Fail(e) == [ok |-> FALSE, err |-> e]

\* exception propagation: the rest of the computation runs on the value of
\* a result that is ok, and a raised exception is the result otherwise
Bind(r, K(_)) == IF r.ok THEN K(r.p) ELSE r

\* try: ... except Exception as e: raise HTTPException(400, f"<kind> '{key}': {e}")
Catch(r, kind, key) == IF r.ok THEN r ELSE Fail(Http400(kind, key, r.names))

----------------------------------------------------------------------------
(* The mapped classes of the example application.                          *)

Models == {"User", "Role"}

\* the type of User.attributes: sqlalchemy.JSON as mapped in the example, a
\* PostgreSQL JSONB column, or an element of a JSONB column that the class
\* exposes as an attribute (to which .astext applies directly)
DocTypes == {"JSON", "JSONB", "JSONB_INDEXED"}

\* __table__.columns, in declaration order
TableColumns(model, d) ==
    IF model = "User"
    THEN << [name |-> <<"i", "d">>, kind |-> "Integer"],
            [name |-> <<"n", "a", "m", "e">>, kind |-> "String"],
            [name |-> <<"e", "m", "a", "i", "l">>, kind |-> "String"],
            [name |-> <<"r", "o", "l", "e", "_", "i", "d">>, kind |-> "Integer"],
            [name |-> <<"a", "g", "e">>, kind |-> "Integer"],
            [name |-> <<"i", "s", "_", "a", "c", "t", "i", "v", "e">>, kind |-> "Boolean"],
            [name |-> <<"s", "t", "a", "t", "u", "s">>, kind |-> "Enum"],
            [name |-> <<"a", "t", "t", "r", "i", "b", "u", "t", "e", "s">>, kind |-> d],
            [name |-> <<"c", "r", "e", "a", "t", "e", "d", "_", "a", "t">>, kind |-> "DateTime"] >>
    ELSE << [name |-> <<"i", "d">>, kind |-> "Integer"],
            [name |-> <<"n", "a", "m", "e">>, kind |-> "String"] >>

\* relationship name -> related class
Relationships(model) ==
    IF model = "User" THEN { <<<<"r", "o", "l", "e">>, "Role">> } ELSE { <<<<"u", "s", "e", "r", "s">>, "User">> }

IsRelationship(model, attr) == \E r \in Relationships(model) : r[1] = attr

RelatedModel(model, attr) == (CHOOSE r \in Relationships(model) : r[1] = attr)[2]

IsColumn(model, attr, d) ==
    \E i \in DOMAIN TableColumns(model, d) : TableColumns(model, d)[i].name = attr

ColumnKind(model, attr, d) ==
    LET cols == TableColumns(model, d)
    IN cols[CHOOSE i \in DOMAIN cols : cols[i].name = attr].kind

\* hasattr(model, attr), for the mapped attributes
HasAttr(model, attr, d) == IsRelationship(model, attr) \/ IsColumn(model, attr, d)

\* a mapped class (alias = 0) or the alias-th aliased() of this query
Entity(model, alias) == [model |-> model, alias |-> alias]

\* getattr(entity, attr) for a mapped attribute
Attr(entity, attr, d) ==
    [e |-> "attr", of |-> entity, name |-> attr,
     kind |-> IF IsRelationship(entity.model, attr) THEN "Relationship"
              ELSE ColumnKind(entity.model, attr, d)]

IsDocKind(kind) == kind \in DocTypes

----------------------------------------------------------------------------
(* Select statements.                                                      *)

\* select(cls)
Select(model) == [from |-> model, joins |-> <<>>, wheres |-> <<>>, order |-> <<>>]

\* query.outerjoin(alias, getattr(current_model, attr))
OuterJoin(query, alias, onEntity, attr) ==
    [query EXCEPT !.joins = Append(@, [target |-> alias, of |-> onEntity, rel |-> attr])]

\* stmt.where(expr)
Where(query, expr) == [query EXCEPT !.wheres = Append(@, expr)]

\* stmt.order_by(asc(column)) / stmt.order_by(desc(column))
OrderBy(query, column, dir) ==
    [query EXCEPT !.order = Append(@, [col |-> column, dir |-> dir])]

----------------------------------------------------------------------------
(* SQL expression terms, as the calls on SQLAlchemy build them.            *)

IsExpr(x) == "e" \in DOMAIN x

\* the SQL type of an expression
TypeOf(x) ==
    IF ~IsExpr(x) THEN "Boolean"
    ELSE IF x.e = "attr" THEN x.kind
    ELSE IF x.e = "index" THEN x.type
    ELSE IF x.e = "astext" THEN "Text"
    ELSE x.to

\* expr[key]: defined by the JSON types only
Index(x, key) ==
    IF IsDocKind(TypeOf(x))
    THEN Ok([e |-> "index", of |-> x, key |-> key, type |-> TypeOf(x)])
    ELSE Raise("NotImplementedError", <<>>)

\* expr.astext: a property of the PostgreSQL JSON comparator, defined on an
\* element of a JSONB value and on nothing else
AsText(x) ==
    IF IsExpr(x) /\ ( (x.e = "index" /\ x.type \in {"JSONB", "JSONB_INDEXED"})
                      \/ (x.e = "attr" /\ x.kind = "JSONB_INDEXED") )
    THEN Ok([e |-> "astext", of |-> x])
    ELSE Raise("AttributeError", <<"a", "s", "t", "e", "x", "t">>)

\* cast(expr, type)
Cast(x, to) == [e |-> "cast", of |-> x, to |-> to]

\* a binary comparison: cmp is one of "==", "!=", "<", "<=", ">", ">="
Cmp(cmp, lhs, rhs) == [p |-> "cmp", cmp |-> cmp, lhs |-> lhs, rhs |-> rhs]

\* column.is_(None) / column.is_not(None)
IsNone(lhs) == [p |-> "is_none", lhs |-> lhs]
IsNotNone(lhs) == [p |-> "is_not_none", lhs |-> lhs]

\* column.ilike(pattern)
ILike(lhs, pattern) == [p |-> "ilike", lhs |-> lhs, pattern |-> pattern]

\* ~expr
Not(q) == [p |-> "not", arg |-> q]

\* and_(*exprs), or_(*exprs)
And(args) == [p |-> "and", args |-> args]
Or(args) == [p |-> "or", args |-> args]

\* column.in_(values): the values must be a list
InOp(lhs, values) ==
    IF IsList(values) THEN Ok([p |-> "in", lhs |-> lhs, vals |-> values.items])
    ELSE Raise("ArgumentError", <<>>)

\* expr.between(low, high)
Between(lhs, low, high) == [p |-> "between", lhs |-> lhs, low |-> low, high |-> high]

RECURSIVE DigitsOf(_)
DigitsOf(n) == IF n < 10 THEN <<AsciiDigits[n + 1]>>
               ELSE DigitsOf(n \div 10) \o <<AsciiDigits[(n % 10) + 1]>>

RECURSIVE Repr(_)
RECURSIVE ReprItems(_, _)
\* repr(value)
Repr(j) ==
    IF j.t = "str" THEN <<"'">> \o j.s \o <<"'">>
    ELSE IF j.t = "num" THEN DigitsOf(j.n)
    ELSE IF j.t = "bool" THEN (IF j.b THEN <<"T", "r", "u", "e">> ELSE <<"F", "a", "l", "s", "e">>)
    ELSE IF j.t = "list" THEN <<"[">> \o ReprItems(j.items, FALSE) \o <<"]">>
    ELSE <<"{">> \o ReprItems(j.entries, TRUE) \o <<"}">>

ReprItems(items, keyed) ==
    IF items = <<>> THEN <<>>
    ELSE (IF keyed THEN <<"'">> \o items[1][1] \o <<"'", ":", " ">> \o Repr(items[1][2])
          ELSE Repr(items[1]))
         \o (IF Len(items) > 1 THEN <<",", " ">> \o ReprItems(Tail(items), keyed) ELSE <<>>)

\* str(value), as an f-string formats it
Str(j) == IF j.t = "str" THEN j.s ELSE Repr(j)

\* value == ""
IsEmptyString(j) == j.t = "str" /\ j.s = <<>>

\* dict lookup v[key]: a KeyError on a dict without the key, a TypeError on
\* a value that is no dict
GetItem(v, key) ==
    IF ~IsDict(v) THEN Raise("TypeError", <<>>)
    ELSE IF \E i \in DOMAIN v.entries : v.entries[i][1] = key
    THEN Ok(v.entries[CHOOSE i \in DOMAIN v.entries : v.entries[i][1] = key][2])
    ELSE Raise("KeyError", key)

\* bounds[i] for i in 0..1: the i-th element of a list, the i-th character
\* of a string
Subscript(v, i) ==
    IF v.t = "list"
    THEN IF i < Len(v.items) THEN Ok(v.items[i + 1]) ELSE Raise("IndexError", <<>>)
    ELSE IF v.t = "str"
    THEN IF i < Len(v.s) THEN Ok(JStr(<<v.s[i + 1]>>)) ELSE Raise("IndexError", <<>>)
    ELSE IF v.t = "obj" THEN Raise("KeyError", <<>>)
    ELSE Raise("TypeError", <<>>)

----------------------------------------------------------------------------
(* utils.py (not among the sources; modelled from the specification).      *)

\* a date-only literal, YYYY-MM-DD
IsDateOnly(j) ==
    /\ j.t = "str"
    /\ Len(j.s) = 10
    /\ \A i \in 1..10 : IF i \in {5, 8} THEN j.s[i] = "-" ELSE IsAsciiDigit(j.s[i])

\* midnight of the day, or of the day after it
DayBoundary(day, next_day) == [t |-> "datetime", day |-> day, next_day |-> next_day]

\* timestamp in [midnight(day), midnight(day + 1))
DayRange(lhs, day) == [p |-> "day_range", lhs |-> lhs, day |-> day]

\* _adjust_date_range(column, value, op) -> (adjusted_value, is_range)
AdjustDateRange(column, value, op) ==
    IF TypeOf(column) = "DateTime" /\ IsDateOnly(value)
    THEN IF op = <<"$", "e", "q">> THEN [adj |-> DayRange(column, value.s), is_range |-> TRUE]
         ELSE IF op = <<"$", "n", "e">> THEN [adj |-> Not(DayRange(column, value.s)), is_range |-> TRUE]
         ELSE [adj |-> DayBoundary(value.s, op \in {<<"$", "g", "t", "e">>, <<"$", "l", "t">>}), is_range |-> FALSE]
    ELSE [adj |-> value, is_range |-> FALSE]

\* is_jsonb_column(column)
IsJsonbColumn(column) == IsDocKind(TypeOf(column))

----------------------------------------------------------------------------
(* operators.py.                                                           *)

LOGICAL_OPERATORS == {<<"$", "a", "n", "d">>, <<"$", "o", "r">>}

\* LOGICAL_OPERATORS[key](*sub_expressions)
Logical(key, sub_expressions) ==
    IF key = <<"$", "a", "n", "d">> THEN And(sub_expressions) ELSE Or(sub_expressions)

\* adjusted_value if is_range else column <cmp> adjusted_value
RangeOrCmp(a, cmp, column) == IF a.is_range THEN a.adj ELSE Cmp(cmp, column, a.adj)

EqOperator(column, value) ==
    IF IsEmptyString(value) THEN Ok(IsNone(column))
    ELSE Ok(RangeOrCmp(AdjustDateRange(column, value, <<"$", "e", "q">>), "==", column))

NeOperator(column, value) ==
    IF IsEmptyString(value) THEN Ok(IsNotNone(column))
    ELSE Ok(RangeOrCmp(AdjustDateRange(column, value, <<"$", "n", "e">>), "!=", column))

GtOperator(column, value) == Ok(Cmp(">", column, AdjustDateRange(column, value, <<"$", "g", "t">>).adj))
GteOperator(column, value) == Ok(Cmp(">=", column, AdjustDateRange(column, value, <<"$", "g", "t", "e">>).adj))
LtOperator(column, value) == Ok(Cmp("<", column, AdjustDateRange(column, value, <<"$", "l", "t">>).adj))
LteOperator(column, value) == Ok(Cmp("<=", column, AdjustDateRange(column, value, <<"$", "l", "t", "e">>).adj))

RECURSIVE IndexPath(_, _, _)
\* for key in path.split("."): expr = expr[key]
IndexPath(expr, keys, i) ==
    IF i > Len(keys) THEN Ok(expr)
    ELSE Bind(Index(expr, keys[i]), LAMBDA e : IndexPath(e, keys, i + 1))

\* _json_path_filter(column, path, value, op) with cast_to = None; op is
\* "==" or "in"
JsonPathFilter(column, path, value, op) ==
    IF path.t # "str" THEN Raise("AttributeError", <<"s", "p", "l", "i", "t">>)
    ELSE Bind(IndexPath(column, Split(path.s, "."), 1), LAMBDA expr :
         Bind(AsText(expr), LAMBDA leaf :
              IF op = "in" THEN InOp(leaf, value) ELSE Ok(Cmp(op, leaf, value))))

\* _range_operator(column, low, high, sql_type)
RangeOperator(column, low, high, sql_type) ==
    Bind(AsText(column), LAMBDA text : Ok(Between(Cast(text, sql_type), low, high)))

\* lambda col, bounds: _range_operator(col, bounds[0], bounds[1], sql_type)
RangeLambda(column, bounds, sql_type) ==
    Bind(Subscript(bounds, 0), LAMBDA low :
    Bind(Subscript(bounds, 1), LAMBDA high :
         RangeOperator(column, low, high, sql_type)))

\* the members "for v in value" yields
Iterate(value) ==
    IF value.t = "list" THEN Ok(value.items)
    ELSE IF value.t = "str" THEN Ok([i \in DOMAIN value.s |-> JStr(<<value.s[i]>>)])
    ELSE IF value.t = "obj" THEN Ok([i \in DOMAIN value.entries |-> JStr(value.entries[i][1])])
    ELSE Raise("TypeError", <<>>)

\* _isanyof_operator: a string member contributes the first component of
\* _adjust_date_range, which is an expression only for a day range; or_()
\* refuses an argument that is not an expression
IsAnyOfArgs(column, members) ==
    [i \in DOMAIN members |->
        IF members[i].t = "str" THEN AdjustDateRange(column, members[i], <<"$", "e", "q">>).adj
        ELSE Cmp("==", column, members[i])]

OrOfArgs(args) ==
    IF \A i \in DOMAIN args : "p" \in DOMAIN args[i]
    THEN Ok(Or(args)) ELSE Raise("ArgumentError", <<>>)

IsAnyOfOperator(column, value) ==
    Bind(Iterate(value), LAMBDA members : OrOfArgs(IsAnyOfArgs(column, members)))

ContainsOperator(column, value) ==
    IF IsDocKind(TypeOf(column))
    THEN Ok([p |-> "json_contains", lhs |-> column, rhs |-> Cast(value, "JSONB")])
    ELSE Ok(ILike(column, <<"%">> \o Str(value) \o <<"%">>))

\* has_key, has_any, has_all and contained_by are methods of the JSONB
\* comparator only
JsonbMethod(column, method, arg) ==
    IF TypeOf(column) \in {"JSONB", "JSONB_INDEXED"}
    THEN Ok([p |-> method, lhs |-> column, rhs |-> arg])
    ELSE Raise("AttributeError", <<>>)

\* HasKeyOperator without the test of the column type
HasKeyOperatorUnchecked(column, key) == JsonbMethod(column, "has_key", key)

HasKeyOperator(column, key) ==
    IF ~IsDocKind(TypeOf(column)) THEN Raise("TypeError", <<"$", "h", "a", "s", "_", "k", "e", "y">>)
    ELSE JsonbMethod(column, "has_key", key)

HasAnyOperator(column, keys) ==
    IF ~IsDocKind(TypeOf(column)) THEN Raise("TypeError", <<"$", "h", "a", "s", "_", "a", "n", "y">>)
    ELSE JsonbMethod(column, "has_any", keys)

HasAllOperator(column, keys) ==
    IF ~IsDocKind(TypeOf(column)) THEN Raise("TypeError", <<"$", "h", "a", "s", "_", "a", "l", "l">>)
    ELSE JsonbMethod(column, "has_all", keys)

ContainedByOperator(column, value) ==
    IF ~IsDocKind(TypeOf(column)) THEN Raise("TypeError", <<"$", "c", "o", "n", "t", "a", "i", "n", "e", "d", "_", "b", "y">>)
    ELSE JsonbMethod(column, "contained_by", Cast(value, "JSONB"))

NContainsLambda(col, v) == Ok(Not(ILike(col, <<"%">> \o Str(v) \o <<"%">>)))
StartsWithLambda(col, v) == Ok(ILike(col, Str(v) \o <<"%">>))
EndsWithLambda(col, v) == Ok(ILike(col, Str(v)))

\* "$path_eq": the first entry of the operand is the path and the value
PathEqLambda(col, v) ==
    IF ~IsDict(v) THEN Raise("AttributeError", <<"i", "t", "e", "m", "s">>)
    ELSE IF v.entries = <<>> THEN Raise("IndexError", <<>>)
    ELSE JsonPathFilter(col, JStr(v.entries[1][1]), v.entries[1][2], "==")

\* "$path_gt", "$path_gte", "$path_lt", "$path_lte":
\*   cast(_json_path_filter(col, v["path"], v["value"], "==").astext, Integer) <cmp> v["value"]
PathCmpLambda(col, v, cmp) ==
    Bind(GetItem(v, <<"p", "a", "t", "h">>), LAMBDA path :
    Bind(GetItem(v, <<"v", "a", "l", "u", "e">>), LAMBDA value :
    Bind(JsonPathFilter(col, path, value, "=="), LAMBDA filter :
    Bind(AsText(filter), LAMBDA text :
         Ok(Cmp(cmp, Cast(text, "Integer"), value))))))

\* "$path_in"
PathInLambda(col, v) ==
    Bind(GetItem(v, <<"p", "a", "t", "h">>), LAMBDA path :
    Bind(GetItem(v, <<"v", "a", "l", "u", "e", "s">>), LAMBDA values :
         JsonPathFilter(col, path, values, "in")))

\* the keys of COMPARISON_OPERATORS
COMPARISON_OPERATORS ==
    { <<"$", "e", "q">>, <<"$", "n", "e">>, <<"$", "g", "t">>, <<"$", "g", "t", "e">>, <<"$", "l", "t">>, <<"$", "l", "t", "e">>, <<"$", "i", "n">>, <<"$", "c", "o", "n", "t", "a", "i", "n", "s">>,
      <<"$", "h", "a", "s", "_", "k", "e", "y">>, <<"$", "h", "a", "s", "_", "a", "n", "y">>, <<"$", "h", "a", "s", "_", "a", "l", "l">>, <<"$", "c", "o", "n", "t", "a", "i", "n", "e", "d", "_", "b", "y">>,
      <<"$", "n", "c", "o", "n", "t", "a", "i", "n", "s">>, <<"$", "s", "t", "a", "r", "t", "s", "w", "i", "t", "h">>, <<"$", "e", "n", "d", "s", "w", "i", "t", "h">>, <<"$", "i", "s", "n", "o", "t", "e", "m", "p", "t", "y">>, <<"$", "i", "s", "e", "m", "p", "t", "y">>,
      <<"$", "i", "s", "a", "n", "y", "o", "f">>, <<"$", "i", "n", "t", "_", "b", "e", "t", "w", "e", "e", "n">>, <<"$", "d", "t", "_", "b", "e", "t", "w", "e", "e", "n">>,
      <<"$", "p", "a", "t", "h", "_", "e", "q">>, <<"$", "p", "a", "t", "h", "_", "g", "t">>, <<"$", "p", "a", "t", "h", "_", "g", "t", "e">>, <<"$", "p", "a", "t", "h", "_", "l", "t">>, <<"$", "p", "a", "t", "h", "_", "l", "t", "e">>, <<"$", "p", "a", "t", "h", "_", "i", "n">> }

\* COMPARISON_OPERATORS[operator](column, operand); "$isempty" and
\* "$isnotempty" take the column alone
ApplyOperator(operator, column, operand) ==
    CASE operator = <<"$", "e", "q">> -> EqOperator(column, operand)
      [] operator = <<"$", "n", "e">> -> NeOperator(column, operand)
      [] operator = <<"$", "g", "t">> -> GtOperator(column, operand)
      [] operator = <<"$", "g", "t", "e">> -> GteOperator(column, operand)
      [] operator = <<"$", "l", "t">> -> LtOperator(column, operand)
      [] operator = <<"$", "l", "t", "e">> -> LteOperator(column, operand)
      [] operator = <<"$", "i", "n">> -> InOp(column, operand)
      [] operator = <<"$", "c", "o", "n", "t", "a", "i", "n", "s">> -> ContainsOperator(column, operand)
      [] operator = <<"$", "h", "a", "s", "_", "k", "e", "y">> -> HasKeyOperator(column, operand)
      [] operator = <<"$", "h", "a", "s", "_", "a", "n", "y">> -> HasAnyOperator(column, operand)
      [] operator = <<"$", "h", "a", "s", "_", "a", "l", "l">> -> HasAllOperator(column, operand)
      [] operator = <<"$", "c", "o", "n", "t", "a", "i", "n", "e", "d", "_", "b", "y">> -> ContainedByOperator(column, operand)
      [] operator = <<"$", "n", "c", "o", "n", "t", "a", "i", "n", "s">> -> NContainsLambda(column, operand)
      [] operator = <<"$", "s", "t", "a", "r", "t", "s", "w", "i", "t", "h">> -> StartsWithLambda(column, operand)
      [] operator = <<"$", "e", "n", "d", "s", "w", "i", "t", "h">> -> EndsWithLambda(column, operand)
      [] operator = <<"$", "i", "s", "n", "o", "t", "e", "m", "p", "t", "y">> -> Ok(IsNotNone(column))
      [] operator = <<"$", "i", "s", "e", "m", "p", "t", "y">> -> Ok(IsNone(column))
      [] operator = <<"$", "i", "s", "a", "n", "y", "o", "f">> -> IsAnyOfOperator(column, operand)
      [] operator = <<"$", "i", "n", "t", "_", "b", "e", "t", "w", "e", "e", "n">> -> RangeLambda(column, operand, "Integer")
      [] operator = <<"$", "d", "t", "_", "b", "e", "t", "w", "e", "e", "n">> -> RangeLambda(column, operand, "DateTime")
      [] operator = <<"$", "p", "a", "t", "h", "_", "e", "q">> -> PathEqLambda(column, operand)
      [] operator = <<"$", "p", "a", "t", "h", "_", "g", "t">> -> PathCmpLambda(column, operand, ">")
      [] operator = <<"$", "p", "a", "t", "h", "_", "g", "t", "e">> -> PathCmpLambda(column, operand, ">=")
      [] operator = <<"$", "p", "a", "t", "h", "_", "l", "t">> -> PathCmpLambda(column, operand, "<")
      [] operator = <<"$", "p", "a", "t", "h", "_", "l", "t", "e">> -> PathCmpLambda(column, operand, "<=")
      [] operator = <<"$", "p", "a", "t", "h", "_", "i", "n">> -> PathInLambda(column, operand)

----------------------------------------------------------------------------
(* core.py: apply_jsonb_path_filter.                                       *)

\* the keys of operator_map
JSONB_PATH_OPERATORS ==
    { <<"$", "e", "q">>, <<"$", "n", "e">>, <<"$", "g", "t">>, <<"$", "g", "t", "e">>, <<"$", "l", "t">>, <<"$", "l", "t", "e">>, <<"$", "i", "n">>, <<"$", "c", "o", "n", "t", "a", "i", "n", "s">>,
      <<"$", "s", "t", "a", "r", "t", "s", "w", "i", "t", "h">>, <<"$", "e", "n", "d", "s", "w", "i", "t", "h">>, <<"$", "i", "s", "e", "m", "p", "t", "y">>, <<"$", "i", "s", "n", "o", "t", "e", "m", "p", "t", "y">> }

\* operator_map[operator](leaf, operand)
JsonbPathOperator(operator, leaf, val) ==
    CASE operator = <<"$", "e", "q">> -> Ok(Cmp("==", leaf, JStr(Str(val))))
      [] operator = <<"$", "n", "e">> -> Ok(Cmp("!=", leaf, JStr(Str(val))))
      [] operator = <<"$", "g", "t">> -> Ok(Cmp(">", Cast(leaf, "Integer"), val))
      [] operator = <<"$", "g", "t", "e">> -> Ok(Cmp(">=", Cast(leaf, "Integer"), val))
      [] operator = <<"$", "l", "t">> -> Ok(Cmp("<", Cast(leaf, "Integer"), val))
      [] operator = <<"$", "l", "t", "e">> -> Ok(Cmp("<=", Cast(leaf, "Integer"), val))
      [] operator = <<"$", "i", "n">> ->
           Bind(Iterate(val), LAMBDA members :
                InOp(leaf, JList([i \in DOMAIN members |-> JStr(Str(members[i]))])))
      [] operator = <<"$", "c", "o", "n", "t", "a", "i", "n", "s">> -> Ok(ILike(Cast(leaf, "String"), <<"%">> \o Str(val) \o <<"%">>))
      [] operator = <<"$", "s", "t", "a", "r", "t", "s", "w", "i", "t", "h">> -> Ok(ILike(Cast(leaf, "String"), Str(val) \o <<"%">>))
      [] operator = <<"$", "e", "n", "d", "s", "w", "i", "t", "h">> -> Ok(ILike(Cast(leaf, "String"), <<"%">> \o Str(val)))
      [] operator = <<"$", "i", "s", "e", "m", "p", "t", "y">> -> Ok(IsNone(leaf))
      [] operator = <<"$", "i", "s", "n", "o", "t", "e", "m", "p", "t", "y">> -> Ok(IsNotNone(leaf))

ApplyJsonbPathFilter(column, path, operator, operand) ==
    Bind(IndexPath(column, Split(path, "."), 1), LAMBDA expr :
    Bind(IF TypeOf(column) \in {"JSONB", "JSONB_INDEXED"} THEN AsText(expr) ELSE Ok(expr),
         LAMBDA leaf :
            IF operator \notin JSONB_PATH_OPERATORS
            THEN Raise("HTTPException", operator)
            ELSE JsonbPathOperator(operator, leaf, operand)))

----------------------------------------------------------------------------
(* core.py: resolve_and_join_column.                                       *)

NoJoins == [m \in {} |-> Entity("User", 0)]

JoinsPut(joins, model, alias) ==
    [m \in DOMAIN joins \cup {model} |-> IF m = model THEN alias ELSE joins[m]]

\* the alias of related_model: a new aliased() unless joins holds one
AliasFor(related_model, query, joins) ==
    IF related_model \notin DOMAIN joins
    THEN Entity(related_model, Len(query.joins) + 1)
    ELSE joins[related_model]

\* the query after the segment: outer-joined to a new alias, or as it was
QueryAfter(current_model, attr, related_model, query, joins) ==
    IF related_model \notin DOMAIN joins
    THEN OuterJoin(query, AliasFor(related_model, query, joins), current_model, attr)
    ELSE query

\* joins after the segment
JoinsAfter(related_model, query, joins) ==
    IF related_model \notin DOMAIN joins
    THEN JoinsPut(joins, related_model, AliasFor(related_model, query, joins))
    ELSE joins

RECURSIVE ResolveLoop(_, _, _, _, _, _)
\* for i, attr in enumerate(nested_keys)
ResolveLoop(current_model, nested_keys, i, query, joins, d) ==
    IF i > Len(nested_keys)
    THEN Fail(Http400("Could not resolve relationship", Join(nested_keys, "."), <<>>))
    ELSE IF IsRelationship(current_model.model, nested_keys[i])
    THEN ResolveLoop(
           AliasFor(RelatedModel(current_model.model, nested_keys[i]), query, joins),
           nested_keys, i + 1,
           QueryAfter(current_model, nested_keys[i],
                      RelatedModel(current_model.model, nested_keys[i]), query, joins),
           JoinsAfter(RelatedModel(current_model.model, nested_keys[i]), query, joins),
           d)
    ELSE IF HasAttr(current_model.model, nested_keys[i], d)
    THEN Ok([col |-> Attr(current_model, nested_keys[i], d), query |-> query, joins |-> joins])
    ELSE Fail(Http400("Invalid filter key", Join(nested_keys, "."), nested_keys[i]))

\* resolve_and_join_column(model, nested_keys, query, joins) -> (column, query);
\* joins is updated in place
ResolveAndJoinColumn(model, nested_keys, query, joins, d) ==
    ResolveLoop(Entity(model, 0), nested_keys, 1, query, joins, d)

----------------------------------------------------------------------------
(* core.py: parse_filters and parse_filter_query.                          *)

RECURSIVE JsonbPathEntries(_, _, _, _, _, _)
\* for operator, operand in value.items(): the JSONB path branch
JsonbPathEntries(key, column, path, ops, i, expressions) ==
    IF i > Len(ops) THEN Ok(expressions)
    ELSE Bind(Catch(ApplyJsonbPathFilter(column, path, ops[i][1], ops[i][2]),
                    "Error filtering JSONB path", key),
              LAMBDA e : JsonbPathEntries(key, column, path, ops, i + 1,
                                          Append(expressions, e)))

RECURSIVE OperatorEntries(_, _, _, _, _)
\* for operator, operand in value.items(): the column branch
OperatorEntries(key, column, ops, i, expressions) ==
    IF i > Len(ops) THEN Ok(expressions)
    ELSE IF ops[i][1] \notin COMPARISON_OPERATORS
    THEN Fail(Http400("Unknown operator", key, ops[i][1]))
    ELSE Bind(Catch(ApplyOperator(ops[i][1], column, ops[i][2]), "Error filtering", key),
              LAMBDA e : OperatorEntries(key, column, ops, i + 1, Append(expressions, e)))

\* AppendLogical without the "if sub_expressions" guard
AppendLogicalUnguarded(expressions, key, sub_expressions) ==
    Append(expressions, Logical(key, sub_expressions))

\* if sub_expressions: expressions.append(LOGICAL_OPERATORS[key](*sub_expressions))
AppendLogical(expressions, key, sub_expressions) ==
    IF sub_expressions # <<>>
    THEN Append(expressions, Logical(key, sub_expressions))
    ELSE expressions

\* if sub_expr is not None: sub_expressions.append(sub_expr)
AppendSub(sub_expressions, r) ==
    IF r.has THEN Append(sub_expressions, r.expr) ELSE sub_expressions

\* IsJsonbPath without the test for a further segment
IsJsonbPathOfAnyLength(model, nested_keys, d) ==
    /\ HasAttr(model, nested_keys[1], d)
    /\ ~IsRelationship(model, nested_keys[1])
    /\ IsJsonbColumn(Attr(Entity(model, 0), nested_keys[1], d))

\* the key starts with a JSONB column of the model and goes on after it
IsJsonbPath(model, nested_keys, d) ==
    /\ HasAttr(model, nested_keys[1], d)
    /\ Len(nested_keys) > 1
    /\ ~IsRelationship(model, nested_keys[1])
    /\ IsJsonbColumn(Attr(Entity(model, 0), nested_keys[1], d))

\* and_(*expressions) if expressions else None
Conjunction(expressions, query) ==
    [has |-> expressions # <<>>, expr |-> And(expressions), query |-> query]

RECURSIVE ParseFilters(_, _, _, _)
RECURSIVE ParseItems(_, _, _, _, _, _, _)
RECURSIVE ParseSubFilters(_, _, _, _, _, _)

\* ParseFilters taking a filter that is no dict for an empty one
ParseFiltersLenient(model, filters, query, d) ==
    IF ~IsDict(filters) THEN Ok(Conjunction(<<>>, query))
    ELSE ParseItems(model, filters.entries, 1, <<>>, NoJoins, query, d)

\* parse_filters(model, filters, query) -> (expression or None, query)
ParseFilters(model, filters, query, d) ==
    IF ~IsDict(filters)
    THEN Fail(Http400("Filters must be a dictionary", <<>>, <<>>))
    ELSE ParseItems(model, filters.entries, 1, <<>>, NoJoins, query, d)

\* for sub_filter in value: the recursive calls, each with joins of its own
ParseSubFilters(model, subs, i, sub_expressions, query, d) ==
    IF i > Len(subs) THEN Ok([expressions |-> sub_expressions, query |-> query])
    ELSE Bind(ParseFilters(model, subs[i], query, d),
              LAMBDA r : ParseSubFilters(model, subs, i + 1,
                                         AppendSub(sub_expressions, r), r.query, d))

\* for key, value in filters.items()
ParseItems(model, entries, i, expressions, joins, query, d) ==
    IF i > Len(entries) THEN Ok(Conjunction(expressions, query))
    ELSE IF entries[i][1] \in LOGICAL_OPERATORS
    THEN
      IF ~IsList(entries[i][2])
      THEN Fail(Http400("Logical operator must be a list", entries[i][1], <<>>))
      ELSE Bind(ParseSubFilters(model, entries[i][2].items, 1, <<>>, query, d),
                LAMBDA subs :
                  ParseItems(model, entries, i + 1,
                             AppendLogical(expressions, entries[i][1], subs.expressions),
                             joins, subs.query, d))
    ELSE IF IsDict(entries[i][2])
    THEN
      IF IsJsonbPath(model, Split(entries[i][1], "."), d)
      THEN Bind(JsonbPathEntries(entries[i][1],
                                 Attr(Entity(model, 0), Split(entries[i][1], ".")[1], d),
                                 Join(Tail(Split(entries[i][1], ".")), "."),
                                 entries[i][2].entries, 1, expressions),
                LAMBDA exprs : ParseItems(model, entries, i + 1, exprs, joins, query, d))
      ELSE Bind(ResolveAndJoinColumn(model, Split(entries[i][1], "."), query, joins, d),
                LAMBDA c :
                  Bind(OperatorEntries(entries[i][1], c.col, entries[i][2].entries, 1,
                                       expressions),
                       LAMBDA exprs :
                         ParseItems(model, entries, i + 1, exprs, c.joins, c.query, d)))
    ELSE Fail(Http400("Invalid filter format", entries[i][1], <<>>))

\* the filters query parameter: None, or a string that is blank (""), or
\* is not JSON (parses = FALSE), or is the JSON text of value
NoFilters == [t |-> "none"]
FilterString(blank, parses, value) ==
    [t |-> "str", blank |-> blank, parses |-> parses, value |-> value]

\* json.loads(filters)
JsonLoads(text) == IF text.parses THEN Ok(text.value) ELSE Raise("JSONDecodeError", <<>>)

\* the body of the try: the decoded value, or a ValueError when it is no dict
LoadDict(text) ==
    Bind(JsonLoads(text),
         LAMBDA parsed : IF IsDict(parsed) THEN Ok(parsed) ELSE Raise("ValueError", <<>>))

\* parse_filter_query(filters) -> dict or None
ParseFilterQuery(filters) ==
    IF filters.t = "none" \/ filters.blank THEN Ok([none |-> TRUE])
    ELSE Bind(Catch(LoadDict(filters), "Invalid filter JSON", <<>>),
              LAMBDA parsed : Ok([none |-> FALSE, dict |-> parsed]))

----------------------------------------------------------------------------
(* builder.py: build_query, one action per stage.                          *)

\* an optional string parameter: None or a string
NoString == [some |-> FALSE, s |-> <<>>]
String(s) == [some |-> TRUE, s |-> s]

\* "if params.search:" / "if params.sort:": not None and not empty
Truthy(opt) == opt.some /\ opt.s # <<>>

\* the caller's stmt argument: None or a Select
NoStmt == [given |-> FALSE, query |-> Select("User")]
GivenStmt(query) == [given |-> TRUE, query |-> query]

NoReturn == [returned |-> FALSE, query |-> Select("User")]

\* stmt.where(filter_expr) if filter_expr is not None
WhereIfAny(r) == IF r.has THEN Where(r.query, r.expr) ELSE r.query

\* the filters stage: the statement after it, or the exception
FiltersStage(model, filters, query, d) ==
    Bind(ParseFilterQuery(filters), LAMBDA parsed_filters :
         IF parsed_filters.none \/ parsed_filters.dict.entries = <<>>
         THEN Ok(query)
         ELSE Bind(ParseFilters(model, parsed_filters.dict, query, d),
                   LAMBDA r : Ok(WhereIfAny(r))))

\* the condition a column contributes to the search, if any; int() of a
\* term that isdigit() accepts and int() does not raises a ValueError
SearchCondition(column, search) ==
    IF column.kind = "Enum"
    THEN Ok(<<ILike(Cast(column, "String"), <<"%">> \o search \o <<"%">>)>>)
    ELSE IF column.kind = "String"
    THEN Ok(<<ILike(column, <<"%">> \o search \o <<"%">>)>>)
    ELSE IF column.kind = "Integer"
    THEN IF IsDigit(search)
         THEN IF IntOf(search).ok
              THEN Ok(<<Cmp("==", column, JNum(IntOf(search).n))>>)
              ELSE Fail(Uncaught("ValueError"))
         ELSE Ok(<<>>)
    ELSE IF column.kind = "Boolean"
    THEN IF Lower(search) \in {<<"t", "r", "u", "e">>, <<"f", "a", "l", "s", "e">>}
         THEN Ok(<<Cmp("==", column, JBool(Lower(search) = <<"t", "r", "u", "e">>))>>)
         ELSE Ok(<<>>)
    ELSE Ok(<<>>)

RECURSIVE SearchExprs(_, _, _, _, _)
\* for column in cls.__table__.columns
SearchExprs(model, d, search, i, search_expr) ==
    IF i > Len(TableColumns(model, d)) THEN Ok(search_expr)
    ELSE Bind(SearchCondition(Attr(Entity(model, 0), TableColumns(model, d)[i].name, d),
                              search),
              LAMBDA cond : SearchExprs(model, d, search, i + 1, search_expr \o cond))

\* stmt.where(or_(*search_expr)) if search_expr
WhereAnyOf(query, search_expr) ==
    IF search_expr # <<>> THEN Where(query, Or(search_expr)) ELSE query

\* the search stage
SearchStage(model, search, query, d) ==
    IF ~Truthy(search) THEN Ok(query)
    ELSE Bind(SearchExprs(model, d, search.s, 1, <<>>),
              LAMBDA search_expr : Ok(WhereAnyOf(query, search_expr)))

\* the pieces of a split that gave exactly two, else the whole string and "asc"
UnpackSort(sort, pieces) ==
    IF Len(pieces) = 2 THEN [field |-> pieces[1], dir |-> pieces[2]]
    ELSE [field |-> sort, dir |-> <<"a", "s", "c">>]

\* sort_field, sort_dir = params.sort.split(":"), except ValueError:
\* sort_field, sort_dir = params.sort, "asc"
SortFieldDir(sort) == UnpackSort(sort, Split(sort, ":"))

\* the column the ordering is on: getattr(cls, sort_field, None), else the
\* resolution of a dotted path with joins of its own
SortColumn(model, sort_field, query, d) ==
    IF HasAttr(model, sort_field, d)
    THEN Ok([col |-> Attr(Entity(model, 0), sort_field, d), query |-> query])
    ELSE IF Len(Split(sort_field, ".")) > 1
    THEN ResolveAndJoinColumn(model, Split(sort_field, "."), query, NoJoins, d)
    ELSE Fail(Http400("Invalid sort field", sort_field, <<>>))

\* SortDirection taking every token but "desc" for ascending
SortDirectionDescOnly(sort_dir) == IF Lower(sort_dir) = <<"d", "e", "s", "c">> THEN "desc" ELSE "asc"

\* asc(column) if sort_dir.lower() == "asc" else desc(column)
SortDirection(sort_dir) == IF Lower(sort_dir) = <<"a", "s", "c">> THEN "asc" ELSE "desc"

\* the sorting stage
SortStage(model, sort, query, d) ==
    IF ~Truthy(sort) THEN Ok(query)
    ELSE Bind(SortColumn(model, SortFieldDir(sort.s).field, query, d),
              LAMBDA c : Ok(OrderBy(c.query, c.col, SortDirection(SortFieldDir(sort.s).dir))))

\* Advance going on to the next stage after an exception
AdvanceIgnoringFailure(outcome, next) ==
    /\ pc' = next
    /\ stmt' = IF outcome.ok THEN outcome.p ELSE stmt
    /\ err' = IF outcome.ok THEN err ELSE outcome.err

\* a stage ends with the statement it built, or build_query ends with the
\* exception it raised
Advance(outcome, next) ==
    /\ pc' = IF outcome.ok THEN next ELSE "raised"
    /\ stmt' = IF outcome.ok THEN outcome.p ELSE stmt
    /\ err' = IF outcome.ok THEN err ELSE outcome.err

\* stmt = select(cls) if stmt is None else stmt
Call ==
    /\ pc = "call"
    /\ stmt' = IF base.given THEN base.query ELSE Select(cls)
    /\ pc' = "filters"
    /\ UNCHANGED <<cls, doc, base, params, err, ret>>

Filters ==
    /\ pc = "filters"
    /\ Advance(FiltersStage(cls, params.filters, stmt, doc), "search")
    /\ UNCHANGED <<cls, doc, base, params, ret>>

Search ==
    /\ pc = "search"
    /\ Advance(SearchStage(cls, params.search, stmt, doc), "sort")
    /\ UNCHANGED <<cls, doc, base, params, ret>>

Sort ==
    /\ pc = "sort"
    /\ Advance(SortStage(cls, params.sort, stmt, doc), "return")
    /\ UNCHANGED <<cls, doc, base, params, ret>>

\* return stmt
Return ==
    /\ pc = "return"
    /\ ret' = [returned |-> TRUE, query |-> stmt]
    /\ pc' = "done"
    /\ UNCHANGED <<cls, doc, base, params, stmt, err>>

Next == Call \/ Filters \/ Search \/ Sort \/ Return

----------------------------------------------------------------------------
(* The inputs.                                                             *)

\* the strings of at most n characters over an alphabet
Strings(alphabet, n) == UNION { [1..k -> alphabet] : k \in 0..n }

Start(c, d, b, f, se, so) ==
    /\ cls = c
    /\ doc = d
    /\ base = b
    /\ params = [filters |-> f, search |-> se, sort |-> so]
    /\ stmt = b.query
    /\ pc = "call"
    /\ err = NoErr
    /\ ret = NoReturn

\* a statement the caller built: select(User).where(User.is_active == true)
CallerStmt ==
    Where(Select("User"), Cmp("==", Attr(Entity("User", 0), <<"i", "s", "_", "a", "c", "t", "i", "v", "e">>, "JSON"), JBool(TRUE)))

(* Filter trees: every object whose weight is at most MaxNodes, a field    *)
(* entry weighing two, a $and / $or entry one more than the sub-filters it *)
(* holds and a sub-filter one more than its entries.                       *)

\* the field entries of the trees: two paths over the same relationship, a
\* JSONB-only operator on a text column, an unknown operator, and a field
\* whose value is no operator object
TreeFieldEntries ==
    { << <<"r", "o", "l", "e", ".", "n", "a", "m", "e">>, JObj(<< << <<"$", "e", "q">>, JStr(<<"a">>) >> >>) >>,
      << <<"r", "o", "l", "e", ".", "i", "d">>, JObj(<< << <<"$", "g", "t">>, JNum(1) >> >>) >>,
      << <<"n", "a", "m", "e">>, JObj(<< << <<"$", "h", "a", "s", "_", "k", "e", "y">>, JStr(<<"a">>) >> >>) >>,
      << <<"a", "g", "e">>, JObj(<< << <<"$", "r", "e", "g", "e", "x">>, JNum(1) >> >>) >>,
      << <<"e", "m", "a", "i", "l">>, JNum(5) >> }

UniqueKeys(entries) ==
    \A i, j \in DOMAIN entries : i # j => entries[i][1] # entries[j][1]

RECURSIVE ObjectEntries(_)
RECURSIVE TreeEntries(_)
RECURSIVE SubFilterLists(_)

\* the entry sequences of weight n; a dict holds a key once
ObjectEntries(n) ==
    IF n = 0 THEN { <<>> }
    ELSE { es \in UNION { { <<first>> \o rest :
                              first \in TreeEntries(k), rest \in ObjectEntries(n - k) } :
                          k \in 1..n } :
           UniqueKeys(es) }

\* the entries of weight k: a $and / $or over nothing (k = 1), a field entry
\* or a $and / $or over a value that is no list (k = 2), or a $and / $or over
\* sub-filters of weight k - 1
TreeEntries(k) ==
    IF k = 1
    THEN { <<c, JList(<<>>)>> : c \in LOGICAL_OPERATORS }
    ELSE (IF k = 2
          THEN TreeFieldEntries \cup { <<c, JNum(5)>> : c \in LOGICAL_OPERATORS }
          ELSE {})
         \cup { <<c, JList(subs)>> : c \in LOGICAL_OPERATORS, subs \in SubFilterLists(k - 1) }

\* the sub-filter lists of weight m > 0; a sub-filter is an object, or (with
\* weight 2) a number where an object is due
SubFilterLists(m) ==
    IF m = 0 THEN { <<>> }
    ELSE UNION { { <<sub>> \o rest :
                     sub \in { JObj(es) : es \in ObjectEntries(k - 1) }
                             \cup (IF k = 2 THEN { JNum(5) } ELSE {}),
                     rest \in SubFilterLists(m - k) } :
                 k \in 1..m }

FilterTrees == { JObj(es) : es \in UNION { ObjectEntries(n) : n \in 0..MaxNodes } }

\* the filters parameter: absent, blank, not JSON, JSON that is no object,
\* or a filter tree
TreeFilterParams ==
    { NoFilters, FilterString(TRUE, FALSE, JNum(0)), FilterString(FALSE, FALSE, JNum(0)),
      FilterString(FALSE, TRUE, JNum(5)), FilterString(FALSE, TRUE, JList(<<>>)) }
    \cup { FilterString(FALSE, TRUE, tree) : tree \in FilterTrees }

InitTrees ==
    \E f \in TreeFilterParams, so \in { NoString, String(<<"r", "o", "l", "e", ".", "n", "a", "m", "e">>) } :
        Start("User", "JSON", NoStmt, f, NoString, so)

Spec == InitTrees /\ [][Next]_vars

(* Single-entry filters {key: {operator: operand}}, optionally with a      *)
(* "$eq" in front of the operator.                                         *)

\* every symbol of COMPARISON_OPERATORS, and one that is not in it
OperatorSymbols == COMPARISON_OPERATORS \cup { <<"$", "r", "e", "g", "e", "x">> }

\* list operands of 0..MaxListLen numbers
ListOperands == { JList([i \in 1..k |-> JNum(i)]) : k \in 0..MaxListLen }

Operands ==
    { JStr(s) : s \in Strings({"a", "A"}, MaxStrLen) }
    \cup ListOperands
    \cup { JNum(5),
           JStr(<<"2", "0", "2", "4", "-", "0", "1", "-", "0", "1">>),
           JObj(<< << <<"h", "a", "i", "r">>, JStr(<<"B", "r", "o", "w", "n">>) >> >>),
           JObj(<< << <<"p", "a", "t", "h">>, JStr(<<"s", "c", "o", "r", "e">>) >>, << <<"v", "a", "l", "u", "e">>, JNum(85) >> >>),
           JObj(<< << <<"p", "a", "t", "h">>, JStr(<<"s", "c", "o", "r", "e">>) >>, << <<"v", "a", "l", "u", "e", "s">>, JList(<<JNum(85)>>) >> >>) }

\* field keys: columns, a document column and a path into it, relationship
\* paths, and paths that name nothing or go on past a column
OperatorKeys == { <<"n", "a", "m", "e">>, <<"c", "r", "e", "a", "t", "e", "d", "_", "a", "t">>, <<"a", "t", "t", "r", "i", "b", "u", "t", "e", "s">>, <<"a", "t", "t", "r", "i", "b", "u", "t", "e", "s", ".", "s", "c", "o", "r", "e">>, <<"r", "o", "l", "e", ".", "n", "a", "m", "e">> }

PathKeys ==
    { <<>>, <<"a", "g", "e">>, <<"n", "o", "p", "e">>, <<"r", "o", "l", "e">>, <<"n", "a", "m", "e", ".", "f", "i", "r", "s", "t">>, <<"r", "o", "l", "e", ".", "i", "d">>, <<"r", "o", "l", "e", ".", "n", "o", "p", "e">>,
      <<"r", "o", "l", "e", ".", "u", "s", "e", "r", "s">>, <<"r", "o", "l", "e", ".", "n", "a", "m", "e", ".", "f", "i", "r", "s", "t">>, <<"r", "o", "l", "e", ".", "u", "s", "e", "r", "s", ".", "n", "a", "m", "e">>, <<"r", "o", "l", "e", ".", "u", "s", "e", "r", "s", ".", "r", "o", "l", "e", ".", "n", "a", "m", "e">>,
      <<"a", "t", "t", "r", "i", "b", "u", "t", "e", "s">>, <<"a", "t", "t", "r", "i", "b", "u", "t", "e", "s", ".", "s", "c", "o", "r", "e">>, <<"r", "o", "l", "e", ".", ".", "n", "a", "m", "e">> }

EntryFilter(key, ops) == FilterString(FALSE, TRUE, JObj(<< <<key, JObj(ops)>> >>))

InitOperators ==
    \/ \E key \in OperatorKeys, op \in OperatorSymbols, operand \in Operands,
          d \in DocTypes, first \in { <<>>, << << <<"$", "e", "q">>, JStr(<<"a">>) >> >> } :
          Start("User", d, NoStmt, EntryFilter(key, first \o << <<op, operand>> >>),
                NoString, NoString)
    \/ \E key \in PathKeys, c \in Models, d \in { "JSON", "JSONB" } :
          Start(c, d, NoStmt, EntryFilter(key, << << <<"$", "e", "q">>, JStr(<<"a">>) >> >>),
                NoString, NoString)

SpecOperators == InitOperators /\ [][Next]_vars

(* Sort strings: words joined by colons.                                   *)

SortWords ==
    { <<>>, <<"a", "g", "e">>, <<"n", "o", "p", "e">>, <<"r", "o", "l", "e", ".", "n", "a", "m", "e">>, <<"a", "s", "c">>, <<"A", "s", "c">>, <<"d", "e", "s", "c">>, <<"D", "E", "S", "C">>, <<"u", "p">> }

SortStrings ==
    { Join(pieces, ":") : pieces \in UNION { [1..k -> SortWords] : k \in 1..MaxSortPieces } }

InitSort ==
    \E so \in { NoString } \cup { String(s) : s \in SortStrings },
       b \in { NoStmt, GivenStmt(CallerStmt) } :
        Start("User", "JSON", b, NoFilters, NoString, so)

SpecSort == InitSort /\ [][Next]_vars

(* Search terms.                                                           *)

SearchTerms ==
    Strings({"1", "2", "sup2", "a", "-"}, MaxStrLen)
    \cup { <<"t", "r", "u", "e">>, <<"T", "r", "u", "e">>, <<"F", "A", "L", "S", "E">>, <<"t", "r", "u", "e", "l", "y">>, <<"a", "c", "t", "i", "v", "e">> }

InitSearch ==
    \E se \in { NoString } \cup { String(s) : s \in SearchTerms },
       c \in Models, b \in { NoStmt, GivenStmt(CallerStmt) } :
        Start(c, "JSON", IF c = "User" THEN b ELSE NoStmt, NoFilters, se, NoString)

SpecSearch == InitSearch /\ [][Next]_vars

(* Sort paths: columns, relationships and paths that name nothing, alone   *)
(* or with a direction.                                                    *)

SortPaths ==
    { <<>>, <<"a", "g", "e">>, <<"n", "o", "p", "e">>, <<"r", "o", "l", "e">>, <<"u", "s", "e", "r", "s">>, <<"r", "o", "l", "e", ".", "n", "a", "m", "e">>, <<"r", "o", "l", "e", ".", "n", "o", "p", "e">>, <<"r", "o", "l", "e", ".", "u", "s", "e", "r", "s">>,
      <<"r", "o", "l", "e", ".", "u", "s", "e", "r", "s", ".", "n", "a", "m", "e">>, <<"u", "s", "e", "r", "s", ".", "n", "a", "m", "e">>, <<"n", "a", "m", "e", ".", "f", "i", "r", "s", "t">>, <<"a", "t", "t", "r", "i", "b", "u", "t", "e", "s">> }

SortSuffixes == { <<>>, <<":", "a", "s", "c">>, <<":", "d", "e", "s", "c">>, <<":", "u", "p">> }

InitSortPaths ==
    \E path \in SortPaths, suffix \in SortSuffixes, c \in Models,
       b \in { NoStmt, GivenStmt(CallerStmt) } :
        Start(c, "JSON", IF c = "User" THEN b ELSE NoStmt, NoFilters, NoString,
              String(path \o suffix))

SpecSortPaths == InitSortPaths /\ [][Next]_vars

(* The three parameters together: each absent, empty, compiling, or        *)
(* failing.                                                                *)

StageFilters ==
    { NoFilters, FilterString(TRUE, FALSE, JNum(0)), FilterString(FALSE, FALSE, JNum(0)),
      FilterString(FALSE, TRUE, JObj(<<>>)),
      FilterString(FALSE, TRUE, JObj(<< << <<"$", "a", "n", "d">>, JList(<<>>) >> >>)),
      EntryFilter(<<"n", "a", "m", "e">>, << << <<"$", "e", "q">>, JStr(<<"a">>) >> >>),
      EntryFilter(<<"r", "o", "l", "e", ".", "n", "a", "m", "e">>, << << <<"$", "e", "q">>, JStr(<<"a">>) >> >>),
      EntryFilter(<<"n", "o", "p", "e">>, << << <<"$", "e", "q">>, JStr(<<"a">>) >> >>) }

StageSearches == { NoString } \cup { String(s) : s \in { <<>>, <<"a">>, <<"1">>, <<"sup2">>, <<"t", "r", "u", "e">> } }

StageSorts ==
    { NoString } \cup { String(s) : s \in { <<>>, <<"a", "g", "e">>, <<"a", "g", "e", ":", "d", "e", "s", "c">>, <<"r", "o", "l", "e", ".", "n", "a", "m", "e">>, <<"n", "o", "p", "e">> } }

InitStages ==
    \E f \in StageFilters, se \in StageSearches, so \in StageSorts, c \in Models,
       b \in { NoStmt, GivenStmt(CallerStmt) } :
        Start(c, "JSON", IF c = "User" THEN b ELSE NoStmt, f, se, so)

SpecStages == InitStages /\ [][Next]_vars

----------------------------------------------------------------------------
(* Properties.                                                             *)

\* the filters parameter is the JSON text of an object
IsTreeParam == params.filters.t = "str" /\ ~params.filters.blank
               /\ params.filters.parses /\ IsDict(params.filters.value)

\* the statement build_query starts from
StartStmt == IF base.given THEN base.query ELSE Select(cls)

\* the joins of a query whose target is an alias of the model
JoinsOn(query, model) == { i \in DOMAIN query.joins : query.joins[i].target.model = model }

(* C1: join deduplication.  However often the filter tree and the sort     *)
(* traverse a relationship, the returned query holds at most one join (one *)
(* alias) for the related entity.                                          *)
C1_JoinDeduplication ==
    pc = "done" => \A m \in Models : Cardinality(JoinsOn(ret.query, m)) <= 1

RECURSIVE ConnectiveOnly(_)
\* a tree of $and / $or over lists of such trees, with no field entry
ConnectiveOnly(j) ==
    /\ IsDict(j)
    /\ \A i \in DOMAIN j.entries :
         /\ j.entries[i][1] \in LOGICAL_OPERATORS
         /\ IsList(j.entries[i][2])
         /\ \A k \in DOMAIN j.entries[i][2].items : ConnectiveOnly(j.entries[i][2].items[k])

RECURSIVE IdentityTruth(_)
\* the truth value of a connective-only tree under the logical identities:
\* $and of nothing is true, $or of nothing is false, entries conjoin
IdentityTruth(j) ==
    \A i \in DOMAIN j.entries :
        IF j.entries[i][1] = <<"$", "a", "n", "d">>
        THEN \A k \in DOMAIN j.entries[i][2].items : IdentityTruth(j.entries[i][2].items[k])
        ELSE \E k \in DOMAIN j.entries[i][2].items : IdentityTruth(j.entries[i][2].items[k])

RECURSIVE ConstantTruth(_)
\* the truth value of a predicate built of and_ / or_ alone
ConstantTruth(q) ==
    IF q.p = "and" THEN \A k \in DOMAIN q.args : ConstantTruth(q.args[k])
    ELSE \E k \in DOMAIN q.args : ConstantTruth(q.args[k])

(* C2 as claimed: the query compiled from a connective-only filter selects *)
(* every row when the tree is true under the logical identities ($and of   *)
(* nothing true, $or of nothing false) and no row when it is false.        *)
C2_LogicalIdentity ==
    (pc = "done" /\ IsTreeParam /\ ConnectiveOnly(params.filters.value)
                 /\ params.filters.value.entries # <<>>)
    => ( (\A k \in DOMAIN ret.query.wheres : ConstantTruth(ret.query.wheres[k]))
         <=> IdentityTruth(params.filters.value) )

RECURSIVE Prune(_)
RECURSIVE PruneEntries(_, _)
RECURSIVE PruneItems(_, _)
\* the tree without its sub-nodes that hold no field entry, and without the
\* $and / $or entries that are left with no sub-node
Prune(j) == JObj(PruneEntries(j.entries, 1))

PruneItems(items, k) ==
    IF k > Len(items) THEN <<>>
    ELSE (IF Prune(items[k]).entries = <<>> THEN <<>> ELSE <<Prune(items[k])>>)
         \o PruneItems(items, k + 1)

PruneEntries(entries, i) ==
    IF i > Len(entries) THEN <<>>
    ELSE (IF entries[i][1] \in LOGICAL_OPERATORS
          THEN IF PruneItems(entries[i][2].items, 1) = <<>> THEN <<>>
               ELSE << <<entries[i][1], JList(PruneItems(entries[i][2].items, 1))>> >>
          ELSE <<entries[i]>>)
         \o PruneEntries(entries, i + 1)

(* C2 as amended: a filter of $and / $or alone compiles to no predicate    *)
(* (the query gets no where clause, for "$or": [] as for "$and": []), and  *)
(* a connective that is empty, or whose sub-nodes all compile to no        *)
(* predicate, contributes nothing to the connective or node around it: the *)
(* filter compiles as the filter without it does.                          *)
C2_EmptyConnectiveDropped ==
    (pc = "search" /\ IsTreeParam)
    => /\ ConnectiveOnly(params.filters.value) => stmt = StartStmt
       /\ stmt = FiltersStage(cls, FilterString(FALSE, TRUE, Prune(params.filters.value)),
                              StartStmt, doc).p

\* a $or over an empty $and and a field entry has compiled to a where clause
C2_Witness ==
    /\ pc = "search"
    /\ params.filters = FilterString(FALSE, TRUE,
          JObj(<< << <<"$", "o", "r">>, JList(<< JObj(<< << <<"$", "a", "n", "d">>, JList(<<>>) >> >>),
                                      JObj(<< << <<"r", "o", "l", "e", ".", "n", "a", "m", "e">>,
                                                 JObj(<< << <<"$", "e", "q">>, JStr(<<"a">>) >> >>) >> >>) >>) >> >>))
    /\ stmt.wheres = << And(<< Or(<< And(<< Cmp("==", Attr(Entity("Role", 1), <<"n", "a", "m", "e">>, "JSON"),
                                                  JStr(<<"a">>)) >>) >>) >>) >>

\* the positions of the colons of a string
Colons(s) == { i \in DOMAIN s : s[i] = ":" }

\* the position of the last colon
LastColon(s) == CHOOSE i \in Colons(s) : \A k \in Colons(s) : k <= i

\* the text before the last colon, and the text after it
BeforeLastColon(s) == SubSeq(s, 1, LastColon(s) - 1)
AfterLastColon(s) == SubSeq(s, LastColon(s) + 1, Len(s))

\* the order_by clause on the column a path resolves to
OrderOn(path, dir) ==
    IF SortColumn(cls, path, StartStmt, doc).ok
    THEN << [col |-> SortColumn(cls, path, StartStmt, doc).p.col, dir |-> dir] >>
    ELSE <<>>

(* C3 as claimed: the path of a sort string is the text before its last    *)
(* colon and the direction token the text after it (the whole string is    *)
(* the path when it has no colon); the ordering is descending only for the *)
(* token "desc" in any case, and ascending for no token or any other.      *)
C3_SortParsing ==
    (pc = "done" /\ Truthy(params.sort))
    => ret.query.order =
         IF Colons(params.sort.s) = {} THEN OrderOn(params.sort.s, "asc")
         ELSE OrderOn(BeforeLastColon(params.sort.s),
                      IF Lower(AfterLastColon(params.sort.s)) = <<"d", "e", "s", "c">>
                      THEN "desc" ELSE "asc")

\* the path and the direction of a sort string: split at its colon when it
\* has exactly one, and otherwise the whole string, ascending
SplitOncePath(s) == IF Cardinality(Colons(s)) = 1 THEN BeforeLastColon(s) ELSE s
SplitOnceDir(s) ==
    IF Cardinality(Colons(s)) = 1 /\ Lower(AfterLastColon(s)) # <<"a", "s", "c">> THEN "desc" ELSE "asc"

(* C3 as amended: a sort string with exactly one colon has the text before *)
(* it as path and the text after it as direction token; with no colon or   *)
(* more than one the whole string is the path and the ordering ascending.  *)
(* The ordering is ascending only for the token "asc" in any case and      *)
(* descending for any other token, the empty one included.  A path that is *)
(* no attribute and has no dot is reported as the invalid sort field.      *)
C3_SortSplitOnce ==
    Truthy(params.sort)
    => /\ pc = "done" =>
            /\ ret.query.order # <<>>
            /\ ret.query.order = OrderOn(SplitOncePath(params.sort.s), SplitOnceDir(params.sort.s))
       /\ (pc = "raised" /\ err.kind = "Invalid sort field") =>
            err.key = SplitOncePath(params.sort.s)

\* "age:up" has ordered by age, descending
C3_Witness ==
    /\ pc = "done"
    /\ params.sort = String(<<"a", "g", "e", ":", "u", "p">>)
    /\ ret.query.order = << [col |-> Attr(Entity("User", 0), <<"a", "g", "e">>, "JSON"), dir |-> "desc"] >>

\* the key of a single-entry filter, its operator entries, and the last of them
EntryKey == params.filters.value.entries[1][1]
EntryOps == params.filters.value.entries[1][2].entries
LastOperator == EntryOps[Len(EntryOps)][1]
LastOperand == EntryOps[Len(EntryOps)][2]

\* the filters stage is over
Filtered == pc \notin {"call", "filters"}

RECURSIVE EndsOnField(_, _, _)
\* the path leads over relationships to a column that is its last segment
EndsOnField(model, nested_keys, d) ==
    IF Len(nested_keys) = 1
    THEN IsColumn(model, nested_keys[1], d) /\ ~IsRelationship(model, nested_keys[1])
    ELSE /\ IsRelationship(model, nested_keys[1])
         /\ EndsOnField(RelatedModel(model, nested_keys[1]), Tail(nested_keys), d)

(* C4: resolve_and_join_column returns a field only for a path whose last  *)
(* segment is that field: a path that goes on after a plain field, a       *)
(* segment that is neither relationship nor field, and a path ending on a  *)
(* relationship all fail with a client error.                              *)
C4_PathResolution ==
    (Filtered /\ ~IsJsonbPath(cls, Split(EntryKey, "."), doc)
              /\ ~EndsOnField(cls, Split(EntryKey, "."), doc))
    => pc = "raised" /\ err.status = 400

RECURSIVE LikeMatch(_, _)
\* SQL LIKE: "%" in the pattern stands for any run of characters
LikeMatch(pattern, value) ==
    IF pattern = <<>> THEN value = <<>>
    ELSE IF pattern[1] = "%"
    THEN LikeMatch(Tail(pattern), value)
         \/ (value # <<>> /\ LikeMatch(pattern, Tail(value)))
    ELSE /\ value # <<>>
         /\ pattern[1] = value[1]
         /\ LikeMatch(Tail(pattern), Tail(value))

RECURSIVE Matches(_, _)
\* whether a row whose column holds the text satisfies an ilike predicate or
\* the negation of one
Matches(q, text) ==
    IF q.p = "not" THEN ~Matches(q.arg, text)
    ELSE LikeMatch(Lower(q.pattern), Lower(text))

\* the operand occurs in the text at some position, case-insensitively
OccursAt(text, operand, i) ==
    /\ i + Len(operand) <= Len(text)
    /\ Lower(SubSeq(text, i + 1, i + Len(operand))) = Lower(operand)

\* what the text operators are to match
TextOperatorMatches(operator, operand, text) ==
    CASE operator = <<"$", "c", "o", "n", "t", "a", "i", "n", "s">> -> \E i \in 0..Len(text) : OccursAt(text, operand, i)
      [] operator = <<"$", "n", "c", "o", "n", "t", "a", "i", "n", "s">> -> ~\E i \in 0..Len(text) : OccursAt(text, operand, i)
      [] operator = <<"$", "s", "t", "a", "r", "t", "s", "w", "i", "t", "h">> -> OccursAt(text, operand, 0)
      [] operator = <<"$", "e", "n", "d", "s", "w", "i", "t", "h">> ->
           Len(operand) <= Len(text) /\ OccursAt(text, operand, Len(text) - Len(operand))

\* the column values the text predicates are tried on
TextValues == Strings({"a", "A", "b"}, MaxStrLen + 1)

(* C5: on a text field, $contains matches exactly the values that contain  *)
(* the operand, $startswith those that begin with it, $endswith those that *)
(* end with it and $ncontains those that do not contain it, whatever the   *)
(* case of the letters.                                                    *)
C5_TextOperators ==
    (Filtered /\ EntryKey = <<"n", "a", "m", "e">> /\ Len(EntryOps) = 1 /\ LastOperand.t = "str"
              /\ LastOperator \in {<<"$", "c", "o", "n", "t", "a", "i", "n", "s">>, <<"$", "n", "c", "o", "n", "t", "a", "i", "n", "s">>, <<"$", "s", "t", "a", "r", "t", "s", "w", "i", "t", "h">>, <<"$", "e", "n", "d", "s", "w", "i", "t", "h">>})
    => /\ pc # "raised"
       /\ \A text \in TextValues :
            Matches(stmt.wheres[1].args[1], text)
            <=> TextOperatorMatches(LastOperator, LastOperand.s, text)

\* the comparison symbol of a $path_ operator
PathComparison(operator) ==
    CASE operator = <<"$", "p", "a", "t", "h", "_", "g", "t">> -> ">"
      [] operator = <<"$", "p", "a", "t", "h", "_", "g", "t", "e">> -> ">="
      [] operator = <<"$", "p", "a", "t", "h", "_", "l", "t">> -> "<"
      [] operator = <<"$", "p", "a", "t", "h", "_", "l", "t", "e">> -> "<="

\* the leaf of the document column at a one-segment path, as text
LeafText(column, key) ==
    [e |-> "astext", of |-> [e |-> "index", of |-> column, key |-> key, type |-> column.kind]]

(* C6: on a document field, $path_gt, $path_gte, $path_lt and $path_lte    *)
(* with the operand {"path": p, "value": v} compile without error to the   *)
(* comparison >, >=, <, <= of the leaf at p, cast to integer, with v.      *)
C6_PathComparison ==
    (Filtered /\ EntryKey = <<"a", "t", "t", "r", "i", "b", "u", "t", "e", "s">> /\ doc \in {"JSON", "JSONB"} /\ Len(EntryOps) = 1
              /\ LastOperator \in {<<"$", "p", "a", "t", "h", "_", "g", "t">>, <<"$", "p", "a", "t", "h", "_", "g", "t", "e">>, <<"$", "p", "a", "t", "h", "_", "l", "t">>, <<"$", "p", "a", "t", "h", "_", "l", "t", "e">>}
              /\ LastOperand = JObj(<< << <<"p", "a", "t", "h">>, JStr(<<"s", "c", "o", "r", "e">>) >>, << <<"v", "a", "l", "u", "e">>, JNum(85) >> >>))
    => /\ pc # "raised"
       /\ stmt.wheres =
            << And(<< Cmp(PathComparison(LastOperator),
                          Cast(LeafText(Attr(Entity(cls, 0), <<"a", "t", "t", "r", "i", "b", "u", "t", "e", "s">>, doc), <<"s", "c", "o", "r", "e">>),
                               "Integer"),
                          JNum(85)) >>) >>

\* the term is a whole number: decimal digits and nothing else
IsWholeNumber(term) == term # <<>> /\ \A i \in DOMAIN term : IsAsciiDigit(term[i])

\* the condition a field is to contribute to the search, if any
FieldCondition(column, term) ==
    CASE column.kind = "String" -> << ILike(column, <<"%">> \o term \o <<"%">>) >>
      [] column.kind = "Enum" -> << ILike(Cast(column, "String"), <<"%">> \o term \o <<"%">>) >>
      [] column.kind = "Integer" /\ IsWholeNumber(term) ->
           << Cmp("==", column, JNum(DecimalValue(term))) >>
      [] column.kind = "Boolean" /\ Lower(term) \in {<<"t", "r", "u", "e">>, <<"f", "a", "l", "s", "e">>} ->
           << Cmp("==", column, JBool(Lower(term) = <<"t", "r", "u", "e">>)) >>
      [] OTHER -> <<>>

RECURSIVE FieldConditions(_, _, _)
\* the conditions of the columns from the i-th on
FieldConditions(model, term, i) ==
    IF i > Len(TableColumns(model, doc)) THEN <<>>
    ELSE FieldCondition(Attr(Entity(model, 0), TableColumns(model, doc)[i].name, doc), term)
         \o FieldConditions(model, term, i + 1)

(* C7: a search never fails.  For every non-empty term build_query         *)
(* completes; the query gets the disjunction of the conditions of the text *)
(* and enum fields (substring), of the integer fields when the term is a   *)
(* whole number and of the boolean fields when it is "true" or "false",    *)
(* and no search predicate when no field contributes.                      *)
C7_SearchNeverFails ==
    Truthy(params.search)
    => /\ pc # "raised"
       /\ pc \in {"sort", "return", "done"} =>
            stmt.wheres = StartStmt.wheres \o
               (IF FieldConditions(cls, params.search.s, 1) = <<>> THEN <<>>
                ELSE << Or(FieldConditions(cls, params.search.s, 1)) >>)

RECURSIVE FieldKind(_, _, _)
\* the kind of the column a path ends on
FieldKind(model, nested_keys, d) ==
    IF Len(nested_keys) = 1 THEN ColumnKind(model, nested_keys[1], d)
    ELSE FieldKind(RelatedModel(model, nested_keys[1]), Tail(nested_keys), d)

\* the key of the entry names a field that is no document
OnNonDocumentField ==
    /\ ~IsJsonbPath(cls, Split(EntryKey, "."), doc)
    /\ EndsOnField(cls, Split(EntryKey, "."), doc)
    /\ ~IsDocKind(FieldKind(cls, Split(EntryKey, "."), doc))

\* the key of the entry names a field, or a path into a document field
OnField ==
    IsJsonbPath(cls, Split(EntryKey, "."), doc) \/ EndsOnField(cls, Split(EntryKey, "."), doc)

\* the last operator of the entry is to be rejected
Rejected ==
    \/ LastOperator \notin COMPARISON_OPERATORS
    \/ /\ LastOperator \in {<<"$", "h", "a", "s", "_", "k", "e", "y">>, <<"$", "h", "a", "s", "_", "a", "n", "y">>, <<"$", "h", "a", "s", "_", "a", "l", "l">>, <<"$", "c", "o", "n", "t", "a", "i", "n", "e", "d", "_", "b", "y">>}
       /\ OnNonDocumentField

(* C8: operator rejection.  An entry on a field, whose operator is not in  *)
(* the operator table, or is $has_key, $has_any, $has_all or $contained_by *)
(* on a field that is no document, makes build_query fail with a 400 that  *)
(* names the field and the operator; nothing is returned and the statement *)
(* is the one build_query started from, without join or where clause of    *)
(* the entry.                                                              *)
C8_OperatorRejection ==
    (Filtered /\ OnField /\ Rejected)
    => /\ pc = "raised"
       /\ err.status = 400
       /\ err.key = EntryKey
       /\ err.item = LastOperator
       /\ ~ret.returned
       /\ stmt = StartStmt

\* "$has_key" after "$eq" on role.name has been rejected
C8_Witness ==
    /\ pc = "raised"
    /\ EntryKey = <<"r", "o", "l", "e", ".", "n", "a", "m", "e">>
    /\ Len(EntryOps) = 2
    /\ LastOperator = <<"$", "h", "a", "s", "_", "k", "e", "y">>
    /\ err = Http400("Error filtering", <<"r", "o", "l", "e", ".", "n", "a", "m", "e">>, <<"$", "h", "a", "s", "_", "k", "e", "y">>)
    /\ stmt = Select("User")

RECURSIVE MalformedNode(_)
\* a node with a $and / $or that holds no list or a sub-node that is no
\* object, or with a field whose value is no operator object
MalformedNode(j) ==
    \E i \in DOMAIN j.entries :
        IF j.entries[i][1] \in LOGICAL_OPERATORS
        THEN \/ ~IsList(j.entries[i][2])
             \/ \E k \in DOMAIN j.entries[i][2].items :
                   \/ ~IsDict(j.entries[i][2].items[k])
                   \/ MalformedNode(j.entries[i][2].items[k])
        ELSE ~IsDict(j.entries[i][2])

\* a non-empty filter text that is no JSON object, or one with a malformed node
MalformedFilter(f) ==
    /\ f.t = "str"
    /\ ~f.blank
    /\ (~f.parses \/ ~IsDict(f.value) \/ MalformedNode(f.value))

(* C9: malformed filters are rejected.  A non-empty filter text that is no *)
(* JSON object, a $and / $or whose value is no list, a sub-node that is no *)
(* object and a field whose value is no operator object each make          *)
(* build_query fail with a 400 that carries a diagnostic; nothing is       *)
(* returned.                                                               *)
C9_MalformedRejected ==
    (Filtered /\ MalformedFilter(params.filters))
    => /\ pc = "raised"
       /\ err.status = 400
       /\ err.kind # ""
       /\ ~ret.returned

\* a $and over a number has been rejected
C9_Witness ==
    /\ pc = "raised"
    /\ params.filters = FilterString(FALSE, TRUE, JObj(<< << <<"$", "a", "n", "d">>, JList(<<JNum(5)>>) >> >>))
    /\ err = Http400("Filters must be a dictionary", <<>>, <<>>)

(* C10: range operand shape.  $int_between and $dt_between with an operand *)
(* that is not a list of exactly two bounds make build_query fail with a   *)
(* 400 and produce no predicate.                                           *)
C10_RangeOperandShape ==
    (Filtered /\ LastOperator \in {<<"$", "i", "n", "t", "_", "b", "e", "t", "w", "e", "e", "n">>, <<"$", "d", "t", "_", "b", "e", "t", "w", "e", "e", "n">>}
              /\ ~(IsList(LastOperand) /\ Len(LastOperand.items) = 2))
    => pc = "raised" /\ err.status = 400

\* the sorting stage is over
Sorted == pc \in {"return", "done", "raised"}

(* C11: sort failure.  A sort path that the relational path rules do not   *)
(* resolve to a field (an unknown segment, alone or in a dotted path, or a *)
(* path that names or ends on a relationship) makes build_query fail with  *)
(* a 400 and no ordering is applied; an ordering is applied only on a      *)
(* field the path resolves to.                                             *)
C11_SortFailure ==
    (Sorted /\ Truthy(params.sort))
    => IF EndsOnField(cls, Split(SplitOncePath(params.sort.s), "."), doc)
       THEN pc # "raised" /\ Len(stmt.order) = 1
                          /\ stmt.order[1].col.kind # "Relationship"
       ELSE pc = "raised" /\ err.status = 400 /\ stmt.order = <<>>

\* a filter text is present
FilterPresent == params.filters.t = "str" /\ ~params.filters.blank

\* the sequence is the other one with one more element at its end
OneMore(longer, shorter) ==
    Len(longer) = Len(shorter) + 1 /\ SubSeq(longer, 1, Len(shorter)) = shorter

\* what one step of build_query may do
StageStep ==
    /\ pc \notin {"done", "raised"}
    /\ pc = "call" => pc' = "filters" /\ stmt' = StartStmt
    /\ pc = "filters" =>
         /\ pc' \in {"search", "raised"}
         /\ pc' = "search" =>
              IF FilterPresent /\ Prune(params.filters.value).entries # <<>>
              THEN OneMore(stmt'.wheres, stmt.wheres) /\ stmt'.order = stmt.order
              ELSE stmt' = stmt
    /\ pc = "search" =>
         /\ pc' \in {"sort", "raised"}
         /\ pc' = "sort" =>
              IF Truthy(params.search)
              THEN /\ stmt'.joins = stmt.joins /\ stmt'.order = stmt.order
                   /\ \/ stmt'.wheres = stmt.wheres
                      \/ /\ OneMore(stmt'.wheres, stmt.wheres)
                         /\ stmt'.wheres[Len(stmt'.wheres)].p = "or"
              ELSE stmt' = stmt
    /\ pc = "sort" =>
         /\ pc' \in {"return", "raised"}
         /\ pc' = "return" =>
              IF Truthy(params.sort)
              THEN stmt'.wheres = stmt.wheres /\ OneMore(stmt'.order, stmt.order)
              ELSE stmt' = stmt
    /\ pc = "return" =>
         /\ pc' = "done" /\ stmt' = stmt /\ ret' = [returned |-> TRUE, query |-> stmt]
         /\ (~FilterPresent /\ ~Truthy(params.search) /\ ~Truthy(params.sort))
            => ret'.query = StartStmt
    /\ pc' = "raised" <=> err' # err
    /\ pc' = "raised" => stmt' = stmt /\ ret' = ret /\ ~ret.returned

(* C12: stage ordering.  build_query starts from the caller's statement,   *)
(* or select(cls) when there is none; the filter predicate is applied      *)
(* first, and only when a filter text is present and compiles to a         *)
(* predicate; the search disjunction second, and only for a search term;   *)
(* the ordering last, and only for a sort spec; with none of the three the *)
(* starting statement is returned as it is; and a stage that fails ends    *)
(* build_query: no later stage is applied and nothing is returned.         *)
C12_StageOrdering == [][StageStep]_vars

\* filter, search and ordering have all been applied to the caller's statement
C12_Witness ==
    /\ pc = "done"
    /\ base = GivenStmt(CallerStmt)
    /\ Len(ret.query.wheres) = 3
    /\ ret.query.wheres[1] = CallerStmt.wheres[1]
    /\ ret.query.wheres[2].p = "and"
    /\ ret.query.wheres[3].p = "or"
    /\ Len(ret.query.order) = 1

\* the only predicate of the only where clause the entry compiled to
EntryPredicate == stmt.wheres[1].args[1]

(* C13: empty-string equality is a null test.  On a plain field, a field   *)
(* across a relationship and a sub-path of a document field alike, "$eq"   *)
(* with "" compiles to the null test of $isempty and "$ne" with "" to the  *)
(* not-null test of $isnotempty; $isempty and $isnotempty compile to these *)
(* tests whatever their operand.                                           *)
C13_EmptyStringIsNullTest ==
    (Filtered /\ OnField /\ Len(EntryOps) = 1)
    => /\ (LastOperator \in {<<"$", "i", "s", "e", "m", "p", "t", "y">>, <<"$", "i", "s", "n", "o", "t", "e", "m", "p", "t", "y">>}
           \/ (LastOperator \in {<<"$", "e", "q">>, <<"$", "n", "e">>} /\ LastOperand = JStr(<<>>)))
          => /\ pc # "raised"
             /\ Len(stmt.wheres) = 1
             /\ Len(stmt.wheres[1].args) = 1
       /\ (LastOperator = <<"$", "i", "s", "e", "m", "p", "t", "y">> \/ (LastOperator = <<"$", "e", "q">> /\ LastOperand = JStr(<<>>)))
          => EntryPredicate.p = "is_none"
       /\ (LastOperator = <<"$", "i", "s", "n", "o", "t", "e", "m", "p", "t", "y">> \/ (LastOperator = <<"$", "n", "e">> /\ LastOperand = JStr(<<>>)))
          => EntryPredicate.p = "is_not_none"

\* the key has a first segment that names a document field of the root
\* entity, and at least one more segment
DocumentPath ==
    /\ Len(Split(EntryKey, ".")) > 1
    /\ IsColumn(cls, Split(EntryKey, ".")[1], doc)
    /\ IsDocKind(ColumnKind(cls, Split(EntryKey, ".")[1], doc))

RECURSIVE PathElement(_, _, _)
\* the element of the document column at the segments 2..n of the key
PathElement(column, nested_keys, n) ==
    IF n = 1 THEN column
    ELSE [e |-> "index", of |-> PathElement(column, nested_keys, n - 1),
          key |-> nested_keys[n], type |-> column.kind]

\* the leaf of the key: the element as text on JSONB, the element on JSON
PathLeaf ==
    IF doc = "JSON"
    THEN PathElement(Attr(Entity(cls, 0), Split(EntryKey, ".")[1], doc),
                     Split(EntryKey, "."), Len(Split(EntryKey, ".")))
    ELSE [e |-> "astext",
          of |-> PathElement(Attr(Entity(cls, 0), Split(EntryKey, ".")[1], doc),
                             Split(EntryKey, "."), Len(Split(EntryKey, ".")))]

\* the predicate of an operator on the leaf: the leaf cast to integer
\* against the operand, or the leaf itself against text
LeafPredicate(operator, operand, q) ==
    CASE operator \in {<<"$", "g", "t">>, <<"$", "g", "t", "e">>, <<"$", "l", "t">>, <<"$", "l", "t", "e">>} ->
           /\ q.p = "cmp"
           /\ q.lhs = Cast(PathLeaf, "Integer")
           /\ q.rhs = operand
           /\ q.cmp = (CASE operator = <<"$", "g", "t">> -> ">" [] operator = <<"$", "g", "t", "e">> -> ">="
                         [] operator = <<"$", "l", "t">> -> "<" [] operator = <<"$", "l", "t", "e">> -> "<=")
      [] operator \in {<<"$", "e", "q">>, <<"$", "n", "e">>} ->
           /\ q.p = "cmp"
           /\ q.lhs = PathLeaf
           /\ q.rhs.t = "str"
           /\ q.cmp = (IF operator = <<"$", "e", "q">> THEN "==" ELSE "!=")
      [] operator = <<"$", "i", "n">> ->
           /\ q.p = "in"
           /\ q.lhs = PathLeaf
           /\ \A k \in DOMAIN q.vals : q.vals[k].t = "str"
      [] OTHER -> TRUE

\* the number of relationships a path starts with: one or none
RelationshipsAhead(model, nested_keys) ==
    IF IsRelationship(model, nested_keys[1]) THEN 1 ELSE 0

(* C14: document-path routing.  A key goes to the document path resolver   *)
(* exactly when its first segment names a document field of the root       *)
(* entity and it has a further segment: then no join is added, each        *)
(* operator of the entry gives one predicate on the leaf, cast to integer  *)
(* for $gt, $gte, $lt, $lte and taken as it is against text for $eq, $ne,  *)
(* $in, and a failure is one of the document path.  Every other key, a     *)
(* bare document field included, is resolved over its relationships (with  *)
(* a join when it starts with one) and its operators are those of the      *)
(* operator table.                                                         *)
C14_DocumentPathRouting ==
    Filtered
    => IF DocumentPath
       THEN /\ stmt.joins = <<>>
            /\ pc = "raised" => err.kind = "Error filtering JSONB path"
            /\ pc # "raised" =>
                 /\ Len(stmt.wheres) = 1
                 /\ Len(stmt.wheres[1].args) = Len(EntryOps)
                 /\ \A i \in DOMAIN EntryOps :
                      LeafPredicate(EntryOps[i][1], EntryOps[i][2], stmt.wheres[1].args[i])
       ELSE /\ pc = "raised" =>
                 err.kind \in {"Invalid filter key", "Could not resolve relationship",
                               "Unknown operator", "Error filtering"}
            /\ pc # "raised" =>
                 /\ stmt.joins # <<>> <=> RelationshipsAhead(cls, Split(EntryKey, ".")) > 0
                 /\ Len(stmt.wheres) = 1
                 /\ Len(stmt.wheres[1].args) = Len(EntryOps)
                 /\ \A i \in DOMAIN EntryOps : EntryOps[i][1] \in COMPARISON_OPERATORS

\* "$eq" and "$gt" on attributes.score have compiled to two predicates on
\* the leaf, without a join
C14_Witness ==
    /\ pc = "done"
    /\ doc = "JSONB"
    /\ EntryKey = <<"a", "t", "t", "r", "i", "b", "u", "t", "e", "s", ".", "s", "c", "o", "r", "e">>
    /\ Len(EntryOps) = 2
    /\ LastOperator = <<"$", "g", "t">>
    /\ ret.query.joins = <<>>
    /\ ret.query.wheres[1].args[2] = Cmp(">", Cast(PathLeaf, "Integer"), LastOperand)

=============================================================================
